---- MODULE Spec2Model ----
(***************************************************************************)
(* Kinematic control core of the Fidelity platform front end:              *)
(*   - RobotArm7DOF (ExoViz.jsx): keyboard-driven manual joint control;    *)
(*   - forwardKinematics / solveIK / clampJoint / lerp (FrankaRobot.jsx);  *)
(*   - FrankaRobot (FrankaRobot.jsx): teleoperation effect and frame loop; *)
(*   - HandTrack (FrankaRobot.jsx): smoothing, predict loop, setup/cleanup;*)
(*   - BatchProgressPanel (App.jsx): polling of a batch job.               *)
(*                                                                         *)
(* Numbers.  JavaScript doubles are modelled in fixed point: one unit is   *)
(* 1e-6 (micro-radian for angles, micro-metre for lengths).  Products and  *)
(* quotients are computed in two limbs of 1e3 so that no intermediate      *)
(* value leaves the 32-bit range of the model checker.                     *)
(***************************************************************************)
EXTENDS Integers, Sequences, FiniteSets, TLC

----------------------------------------------------------------------------
(* Fixed-point arithmetic *)

K == 10 * 100
S == K * K

Abs(x) == IF x < 0 THEN -x ELSE x

Max(a, b) == IF a >= b THEN a ELSE b

Min(a, b) == IF a <= b THEN a ELSE b

\* x * y of two non-negative fixed-point numbers, limb by limb
MulAbs(x, y) ==
  (x \div K) * (y \div K)
  + (((x \div K) * (y % K) + (x % K) * (y \div K) + (((x % K) * (y % K)) \div K)) \div K)

\* a * b of two fixed-point numbers (truncated toward zero)
MulS(a, b) ==
  IF (a < 0) = (b < 0) THEN MulAbs(Abs(a), Abs(b)) ELSE -MulAbs(Abs(a), Abs(b))

\* the two fractional limbs of r / (K * y), 0 <= r < K * y
DivFrac(r, y) == (r \div y) * K + (((r % y) * K) \div y)

\* x / y of two non-negative fixed-point numbers, 0 < y < 2 * S
DivAbs(x, y) == (x \div y) * S + DivFrac((x % y) * K, y)

\* a / b of two fixed-point numbers (truncated toward zero)
DivS(a, b) ==
  IF (a < 0) = (b < 0) THEN DivAbs(Abs(a), Abs(b)) ELSE -DivAbs(Abs(a), Abs(b))

RECURSIVE ISqrtBetween(_, _, _)
ISqrtBetween(n, lo, hi) ==
  IF lo >= hi THEN lo
  ELSE IF ((lo + hi + 1) \div 2) * ((lo + hi + 1) \div 2) <= n
       THEN ISqrtBetween(n, (lo + hi + 1) \div 2, hi)
       ELSE ISqrtBetween(n, lo, ((lo + hi + 1) \div 2) - 1)

\* floor(sqrt(n)) for 0 <= n < 2^31
ISqrt(n) == ISqrtBetween(n, 0, 46340)

\* Math.PI
PI == 3141593

HALF_PI == PI \div 2

\* x reduced to [-PI, PI]
RECURSIVE WrapPi(_)
WrapPi(x) ==
  IF x > PI THEN WrapPi(x - 2 * PI)
  ELSE IF x < -PI THEN WrapPi(x + 2 * PI)
  ELSE x

\* sum of the alternating series  term - term*x2/(n(n+1)) + ...  up to order 15
RECURSIVE Series(_, _, _)
Series(term, x2, n) ==
  IF n > 15 \/ term = 0 THEN 0
  ELSE term + Series(-(MulS(term, x2) \div (n * (n + 1))), x2, n + 2)

\* w in [-PI, PI] folded to [-PI/2, PI/2] with the same sine
FoldSin(w) ==
  IF w > HALF_PI THEN PI - w
  ELSE IF w < -HALF_PI THEN -PI - w
  ELSE w

SinFolded(r) == Series(r, MulS(r, r), 2)

\* Math.sin
Sin(x) == SinFolded(FoldSin(WrapPi(x)))

CosFolded(r) == Series(S, MulS(r, r), 1)

\* cosine of w in [0, PI]
CosWrapped(w) == IF w > HALF_PI THEN -CosFolded(PI - w) ELSE CosFolded(w)

\* Math.cos
Cos(x) == CosWrapped(Abs(WrapPi(x)))

----------------------------------------------------------------------------
(* THREE.Vector3 *)

SubVectors(a, b) == <<a[1] - b[1], a[2] - b[2], a[3] - b[3]>>

DivideScalar(v, s) == <<DivS(v[1], s), DivS(v[2], s), DivS(v[3], s)>>

Dot(a, b) == MulS(a[1], b[1]) + MulS(a[2], b[2]) + MulS(a[3], b[3])

\* the power of ten dropped before squaring, so that the sum of the three
\* squares stays in range (what the exponent of a double does)
RECURSIVE Shift(_, _)
Shift(m, f) == IF m \div f <= 26000 THEN f ELSE Shift(m, f * 10)

MaxAbs(v) == Max(Abs(v[1]), Max(Abs(v[2]), Abs(v[3])))

LengthScaled(v, f) ==
  f * ISqrt((v[1] \div f) * (v[1] \div f) + (v[2] \div f) * (v[2] \div f)
            + (v[3] \div f) * (v[3] \div f))

\* Vector3.length()
Length(v) == LengthScaled(v, Shift(MaxAbs(v), 1))

----------------------------------------------------------------------------
(* Chain model *)

Joints == 1 .. 7

\* FRANKA_DH.d, FRANKA_DH.a, FRANKA_DH.alpha
FRANKA_DH ==
  [ d     |-> <<333000, 0, 316000, 0, 384000, 0, 0>>,
    a     |-> <<0, 0, 0, 82500, -82500, 0, 88000>>,
    alpha |-> <<0, -HALF_PI, HALF_PI, HALF_PI, -HALF_PI, HALF_PI, HALF_PI>> ]

JOINT_LIMITS ==
  << <<-2897300, 2897300>>,
     <<-1762800, 1762800>>,
     <<-2897300, 2897300>>,
     <<-3071800,  -69800>>,
     <<-2897300, 2897300>>,
     <<  -17500, 3752500>>,
     <<-2897300, 2897300>> >>

\* clampJoint without its upper bound
clampJointLowerOnly(angle, idx) == Max(JOINT_LIMITS[idx][1], angle)

clampJoint(angle, idx) ==
  Max(JOINT_LIMITS[idx][1], Min(JOINT_LIMITS[idx][2], angle))

\* the interpolation with its end points exchanged
lerpFromTarget(a, b, t) == b + MulS(a - b, t)

\* const lerp = (a, b, t) => a + (b - a) * t
lerp(a, b, t) == a + MulS(b - a, t)

----------------------------------------------------------------------------
(* THREE.Matrix4, as its upper three rows (the fourth row of every matrix  *)
(* built here is 0 0 0 1)                                                  *)

Identity == << <<S, 0, 0, 0>>, <<0, S, 0, 0>>, <<0, 0, S, 0>> >>

\* entry (i, j) of A * B
Entry(A, B, i, j) ==
  MulS(A[i][1], B[1][j]) + MulS(A[i][2], B[2][j]) + MulS(A[i][3], B[3][j])
  + (IF j = 4 THEN A[i][4] ELSE 0)

MulRow(A, B, i) == <<Entry(A, B, i, 1), Entry(A, B, i, 2), Entry(A, B, i, 3), Entry(A, B, i, 4)>>

\* Matrix4.multiply: A * B
Multiply(A, B) == <<MulRow(A, B, 1), MulRow(A, B, 2), MulRow(A, B, 3)>>

\* Math.cos(alpha), Math.sin(alpha) of the seven links
CosAlpha ==
  <<Cos(FRANKA_DH.alpha[1]), Cos(FRANKA_DH.alpha[2]), Cos(FRANKA_DH.alpha[3]),
    Cos(FRANKA_DH.alpha[4]), Cos(FRANKA_DH.alpha[5]), Cos(FRANKA_DH.alpha[6]),
    Cos(FRANKA_DH.alpha[7])>>

SinAlpha ==
  <<Sin(FRANKA_DH.alpha[1]), Sin(FRANKA_DH.alpha[2]), Sin(FRANKA_DH.alpha[3]),
    Sin(FRANKA_DH.alpha[4]), Sin(FRANKA_DH.alpha[5]), Sin(FRANKA_DH.alpha[6]),
    Sin(FRANKA_DH.alpha[7])>>

\* Ti.set(ct, -st*ca, st*sa, a*ct,  st, ct*ca, -ct*sa, a*st,  0, sa, ca, d)
TiSet(ct, st, ca, sa, a, d) ==
  << <<ct, -MulS(st, ca),  MulS(st, sa), MulS(a, ct)>>,
     <<st,  MulS(ct, ca), -MulS(ct, sa), MulS(a, st)>>,
     <<0,   sa,            ca,           d>> >>

\* the DH transformation matrix Ti of joint i at angle theta
DHMatrix(theta, i) ==
  TiSet(Cos(theta), Sin(theta), CosAlpha[i], SinAlpha[i],
        FRANKA_DH.a[i], FRANKA_DH.d[i])

\* eeOffset.makeTranslation(0, 0, 0.107)
EEOffset == << <<S, 0, 0, 0>>, <<0, S, 0, 0>>, <<0, 0, S, 107000>> >>

\* the loop  for (i = 0; i < 7; i++) T.multiply(Ti)  from joint i on
RECURSIVE ChainFrom(_, _, _)
ChainFrom(T, angles, i) ==
  IF i > 7 THEN T
  ELSE ChainFrom(Multiply(T, DHMatrix(angles[i], i)), angles, i + 1)

\* position.setFromMatrixPosition(T)
MatrixPosition(T) == <<T[1][4], T[2][4], T[3][4]>>

\* end-effector position from joint angles
forwardKinematics(angles) ==
  MatrixPosition(Multiply(ChainFrom(Identity, angles, 1), EEOffset))

----------------------------------------------------------------------------
(* solveIK *)

\* delta = 0.0001, the finite-difference perturbation
delta == 100

\* lambda = 0.5, the damping factor
lambda == 500000

\* maxStep = 0.15
maxStep == 150000

\* the early-exit threshold 0.002
EPSILON == 2000

\* the same weight for every joint
WeightUniform(j) == S

\* weight = j < 3 ? 1.0 : 0.8   (j is 0-based in the source, 1-based here)
Weight(j) == IF j - 1 < 3 THEN S ELSE 800000

\* the estimate started from the home pose instead of the seed
CopySeedHome(seedAngles) == <<0, 0, 0, -HALF_PI, 0, HALF_PI, 0>>

\* const newAngles = [...currentAngles]
CopySeed(seedAngles) ==
  <<seedAngles[1], seedAngles[2], seedAngles[3], seedAngles[4],
    seedAngles[5], seedAngles[6], seedAngles[7]>>

\* error = targetPos - forwardKinematics(newAngles)
ErrorOf(target, angles) == SubVectors(target, forwardKinematics(angles))

\* tempAngles = [...newAngles]; tempAngles[j] += delta
Perturbed(angles, j) == [angles EXCEPT ![j] = @ + delta]

\* column j of the numerical Jacobian: (FK(tempAngles) - currentPos) / delta
Column(angles, currentPos, j) ==
  DivideScalar(SubVectors(forwardKinematics(Perturbed(angles, j)), currentPos), delta)

\* the Jacobian with tempAngles not reset between columns: column j is taken
\* with joints 1 .. j all perturbed
JacobianCumulative(angles, currentPos) ==
  LET upTo(j) == <<angles[1] + delta,
                   angles[2] + (IF j >= 2 THEN delta ELSE 0),
                   angles[3] + (IF j >= 3 THEN delta ELSE 0),
                   angles[4] + (IF j >= 4 THEN delta ELSE 0),
                   angles[5] + (IF j >= 5 THEN delta ELSE 0),
                   angles[6] + (IF j >= 6 THEN delta ELSE 0),
                   angles[7] + (IF j >= 7 THEN delta ELSE 0)>>
      col(j) == DivideScalar(SubVectors(forwardKinematics(upTo(j)), currentPos), delta)
  IN  <<col(1), col(2), col(3), col(4), col(5), col(6), col(7)>>

\* jacobian: the seven columns, each from a fresh copy of newAngles
Jacobian(angles, currentPos) ==
  <<Column(angles, currentPos, 1), Column(angles, currentPos, 2),
    Column(angles, currentPos, 3), Column(angles, currentPos, 4),
    Column(angles, currentPos, 5), Column(angles, currentPos, 6),
    Column(angles, currentPos, 7)>>

\* adaptiveStep = Math.min(maxStep, 0.5 * errorMag)
AdaptiveStep(errorMag) == Min(maxStep, MulS(500000, errorMag))

\* update = gradient * adaptiveStep * weight / (1.0 + lambda * lambda)
Update(gradient, adaptiveStep, j) ==
  DivS(MulS(MulS(gradient, adaptiveStep), Weight(j)), S + MulS(lambda, lambda))

\* the update loop with the clamp applied only to a joint whose update is not 0
RECURSIVE UpdateFromMoved(_, _, _, _, _)
UpdateFromMoved(angles, jacobian, error, adaptiveStep, from) ==
  IF from > 7 THEN angles
  ELSE UpdateFromMoved(
         [angles EXCEPT ![from] =
            IF Update(Dot(jacobian[from], error), adaptiveStep, from) = 0 THEN @
            ELSE clampJoint(@ + Update(Dot(jacobian[from], error), adaptiveStep, from), from)],
         jacobian, error, adaptiveStep, from + 1)

\* the update loop over j = from .. 7:
\* newAngles[j] += update; newAngles[j] = clampJoint(newAngles[j], j)
RECURSIVE UpdateFrom(_, _, _, _, _)
UpdateFrom(angles, jacobian, error, adaptiveStep, from) ==
  IF from > 7 THEN angles
  ELSE UpdateFrom(
         [angles EXCEPT ![from] =
            clampJoint(@ + Update(Dot(jacobian[from], error), adaptiveStep, from), from)],
         jacobian, error, adaptiveStep, from + 1)

\* the loop body after the early-exit test, given the error vector
BodyWithError(angles, currentPos, error) ==
  UpdateFrom(angles, Jacobian(angles, currentPos), error, AdaptiveStep(Length(error)), 1)

BodyAt(target, angles, currentPos) ==
  BodyWithError(angles, currentPos, SubVectors(target, currentPos))

\* one pass of the loop body after the early-exit test
IterationBody(target, angles) == BodyAt(target, angles, forwardKinematics(angles))

\* the early exit with a threshold of 0.0002
EarlyExitTighter(errorMag) == errorMag < 200

\* if (errorMag < 0.002) break
EarlyExit(errorMag) == errorMag < EPSILON

\* every element within its JOINT_LIMITS pair
WithinLimits(angles) ==
  \A j \in Joints : JOINT_LIMITS[j][1] <= angles[j] /\ angles[j] <= JOINT_LIMITS[j][2]

\* useState([0, 0, 0, -Math.PI/2, 0, Math.PI/2, 0])
HOME == <<0, 0, 0, -HALF_PI, 0, HALF_PI, 0>>

----------------------------------------------------------------------------
(* State *)

VARIABLES
  \* RobotArm7DOF
  jointAngles,     \* useState: the joint angles
  selectedJoint,   \* useState: the selected joint, 0-based
  handlerJoint,    \* the selectedJoint captured by the registered keydown listener
  lastKey,         \* the key of the last keydown event handled
  nKeys,           \* keydown events handled so far
  \* one activation of solveIK
  ikPc,            \* "idle" | "loop" | "return"
  targetPos,       \* argument
  currentAngles,   \* argument (the seed)
  iterations,      \* argument
  newAngles,       \* local: the estimate
  iter,            \* local: the loop counter
  \* the caller of solveIK in isolation
  firstResult,     \* per probed input, what the first finished call returned
  \* FrankaRobot
  ghostJointAngles,  \* useState: the smoothed configuration
  targetAnglesRef,   \* useRef: the solved configuration
  gripperOpen,       \* useState
  teleopEnabled,     \* prop
  teleopTarget,      \* prop
  effectPending,     \* the teleop effect is due: one of its deps changed
  nFrames,           \* frames rendered so far
  nProps,            \* prop changes so far
  serverJointAngles, \* prop: <<>> for null
  anglesToUse,       \* the angles last passed to robotModel.setJointValue, <<>> before
  frankaSelectedJoint, \* useState: FrankaRobot's selectedJoint
  \* RobotArmDemo, the parent of FrankaRobot on the demo page
  demoJointAngles,   \* useState: the angles shown by FrankaControls
  demoSelectedJoint, \* useState: the joint highlighted by FrankaControls
  \* HandTrack
  smoothingBuffer,   \* per hand, the buffered raw positions
  rawPositions,      \* history: per hand, every raw position pushed to the buffer
  smoothed,          \* per hand, what smoothPosition last returned, <<>> before
  nSamples,          \* calls of smoothPosition so far
  \* one run of HandTrack's effect
  trackPc,           \* where setup() is: "vision" | "landmarker" | "camera" | "loading" | "ended"
  landmarker,        \* let landmarker: "null" | "open" | "closed"
  localStream,       \* let localStream: "null" | "live" | "stopped"
  animationId,       \* the frame callback requested by predict: "none" | "pending" | "cancelled"
  cleanedUp,         \* the cleanup of this run has been called
  videoRef,          \* videoRef.current and canvasRef.current are set (the component is mounted)
  detected,          \* results.handedness of the last processed frame: its displayNames
  prevDetected,      \* the same for the frame before
  posed,             \* the payloads passed to onPose by the last call of predict
  nVideoFrames,      \* calls of predict so far
  ranAfterCleanup,   \* history: predict passed its guard after the cleanup
  posedAfterCleanup, \* history: onPose was called after the cleanup
  \* BatchProgressPanel and the job it polls
  videoStatus,       \* server: per video "processing" | "complete" | "failed"
  jobStatus,         \* server: "processing" | "complete" | "failed"
  pollPc,            \* "unmounted" | "mounted" (fetchStatus() called, its response pending) | "polling"
  interval,          \* the setInterval timer: "none" | "active" | "cleared"
  notifications,     \* per video, the calls of onVideoComplete so far
  doneReported,      \* a poll has returned true (job status complete or failed)
  pollsAfterDone,    \* history: polls started after a poll had returned true
  nPolls             \* calls of fetchStatus so far

armVars == <<jointAngles, selectedJoint, handlerJoint, lastKey, nKeys>>

ikVars == <<ikPc, targetPos, currentAngles, iterations, newAngles, iter>>

frankaVars ==
  <<ghostJointAngles, targetAnglesRef, gripperOpen, teleopEnabled, teleopTarget,
    effectPending, nFrames, nProps>>

\* what FrankaRobot hands to the URDF model
modelVars == <<serverJointAngles, anglesToUse>>

\* the joint readout: FrankaRobot's selection and its parent's copy of the state
panelVars == <<frankaSelectedJoint, demoJointAngles, demoSelectedJoint>>

handVars == <<smoothingBuffer, rawPositions, smoothed, nSamples>>

trackVars ==
  <<trackPc, landmarker, localStream, animationId, cleanedUp, videoRef, detected,
    prevDetected, posed, nVideoFrames, ranAfterCleanup, posedAfterCleanup>>

pollVars ==
  <<videoStatus, jobStatus, pollPc, interval, notifications, doneReported, pollsAfterDone,
    nPolls>>

\* everything outside the arm, solveIK and the teleop state
restVars == <<modelVars, panelVars, handVars, trackVars, pollVars>>

vars == <<armVars, ikVars, firstResult, frankaVars, restVars>>

----------------------------------------------------------------------------
(* RobotArm7DOF: keyboard control *)

MaxKeys == 5

Keys == {"0", "1", "2", "3", "4", "5", "6", "7", "8",
         "ArrowUp", "ArrowDown", "r", "R", "Enter"}

\* the UTF-16 code units of e.key
CodeUnits(key) ==
  CASE key = "0" -> <<48>>
    [] key = "1" -> <<49>>
    [] key = "2" -> <<50>>
    [] key = "3" -> <<51>>
    [] key = "4" -> <<52>>
    [] key = "5" -> <<53>>
    [] key = "6" -> <<54>>
    [] key = "7" -> <<55>>
    [] key = "8" -> <<56>>
    [] key = "r" -> <<114>>
    [] key = "R" -> <<82>>
    [] key = "Enter" -> <<69, 110, 116, 101, 114>>
    [] key = "ArrowUp" -> <<65, 114, 114, 111, 119, 85, 112>>
    [] key = "ArrowDown" -> <<65, 114, 114, 111, 119, 68, 111, 119, 110>>

\* a <= b on JavaScript strings: lexicographic on code units
RECURSIVE StrLeq(_, _)
StrLeq(a, b) ==
  IF a = <<>> THEN TRUE
  ELSE IF b = <<>> THEN FALSE
  ELSE IF Head(a) # Head(b) THEN Head(a) < Head(b)
  ELSE StrLeq(Tail(a), Tail(b))

\* parseInt on a string that starts with a digit: its leading digits
RECURSIVE ParseDigits(_, _)
ParseDigits(codes, acc) ==
  IF codes = <<>> \/ Head(codes) < 48 \/ Head(codes) > 57 THEN acc
  ELSE ParseDigits(Tail(codes), 10 * acc + (Head(codes) - 48))

parseInt(key) == ParseDigits(CodeUnits(key), 0)

\* the select test widened to every digit key
IsSelectKeyAnyDigit(key) ==
  StrLeq(<<48>>, CodeUnits(key)) /\ StrLeq(CodeUnits(key), <<57>>)

\* key >= '1' && key <= '7'
IsSelectKey(key) ==
  StrLeq(<<49>>, CodeUnits(key)) /\ StrLeq(CodeUnits(key), <<55>>)

\* key === 'ArrowUp' || key === 'ArrowDown'
IsRotateKey(key) == key = "ArrowUp" \/ key = "ArrowDown"

\* key === 'r' || key === 'R'
IsResetKey(key) == key = "r" \/ key = "R"

\* the increment of 0.05 used before it was raised to 0.1
RotateDeltaOld(key) == IF key = "ArrowUp" THEN 50000 ELSE -50000

\* const delta = key === 'ArrowUp' ? 0.1 : -0.1
RotateDelta(key) == IF key = "ArrowUp" THEN 100000 ELSE -100000

\* the table `limits` of the rotate handler
limits ==
  << <<-2897300, 2897300>>,
     <<-1762800, 1762800>>,
     <<-2897300, 2897300>>,
     <<-3071800,  -69800>>,
     <<-2897300, 2897300>>,
     <<  -17500, 3752500>>,
     <<-2897300, 2897300>> >>

\* the updater with newAngles started from zeros instead of a copy of prev
RotatedFromZeros(prev, joint, d) ==
  LET moved == [<<0, 0, 0, 0, 0, 0, 0>> EXCEPT ![joint + 1] = prev[joint + 1] + d]
  IN  [moved EXCEPT ![joint + 1] =
         Max(limits[joint + 1][1], Min(limits[joint + 1][2], @))]

\* the updater passed to setJointAngles: prev with joint `joint` (0-based)
\* moved by d and clamped to its limits
Rotated(prev, joint, d) ==
  LET moved == [prev EXCEPT ![joint + 1] = @ + d]
  IN  [moved EXCEPT ![joint + 1] =
         Max(limits[joint + 1][1], Min(limits[joint + 1][2], @))]

\* setJointAngles([0, 0, 0, 0, 0, 0, 0])
ResetAngles == <<0, 0, 0, 0, 0, 0, 0>>

\* handleKeyDown(e).  The listener in force is the one registered by the
\* last run of the keyboard effect; it reads the selectedJoint of that render.
HandleKeyDown(key) ==
  /\ nKeys < MaxKeys
  /\ lastKey' = key
  /\ nKeys' = nKeys + 1
  /\ IF IsSelectKey(key)
     THEN /\ selectedJoint' = parseInt(key) - 1
          /\ UNCHANGED jointAngles
     ELSE /\ jointAngles' =
               IF IsResetKey(key) THEN ResetAngles
               ELSE IF IsRotateKey(key)
                    THEN Rotated(jointAngles, handlerJoint, RotateDelta(key))
                    ELSE jointAngles
          /\ selectedJoint' = IF IsResetKey(key) THEN 0 ELSE selectedJoint
  /\ UNCHANGED <<handlerJoint, ikVars, firstResult, frankaVars, restVars>>

\* a keydown event dispatched after the effects of the previous one have run
KeyDown(key) == handlerJoint = selectedJoint /\ HandleKeyDown(key)

\* a keydown event dispatched after a selection change was stored and before
\* the keyboard effect has registered the listener of the new render
KeyDownBeforeEffect(key) == handlerJoint # selectedJoint /\ HandleKeyDown(key)

\* the keyboard effect (deps [selectedJoint]): the old listener is removed
\* and one that captures the new selectedJoint is registered
KeyboardEffect ==
  /\ handlerJoint # selectedJoint
  /\ handlerJoint' = selectedJoint
  /\ UNCHANGED <<jointAngles, selectedJoint, lastKey, nKeys, ikVars, firstResult, frankaVars,
                 restVars>>

----------------------------------------------------------------------------
(* solveIK, one loop iteration per step *)

\* entry that leaves the loop counter where the previous call left it
IKBeginKeepIter(t, seed, n) ==
  /\ ikPc = "idle"
  /\ ikPc' = "loop"
  /\ targetPos' = t
  /\ currentAngles' = seed
  /\ iterations' = n
  /\ newAngles' = CopySeed(seed)
  /\ iter' = iter

\* entry: const newAngles = [...currentAngles]; iter = 0
IKBegin(t, seed, n) ==
  /\ ikPc = "idle"
  /\ ikPc' = "loop"
  /\ targetPos' = t
  /\ currentAngles' = seed
  /\ iterations' = n
  /\ newAngles' = CopySeed(seed)
  /\ iter' = 0

\* a full pass with newAngles bound to the caller's array instead of a copy:
\* the pass writes through to the seed
IKIterateInPlace ==
  /\ ikPc = "loop"
  /\ iter < iterations
  /\ ~EarlyExit(Length(ErrorOf(targetPos, newAngles)))
  /\ newAngles' = IterationBody(targetPos, newAngles)
  /\ currentAngles' = newAngles'
  /\ iter' = iter + 1
  /\ UNCHANGED <<ikPc, targetPos, iterations>>

\* a full pass of the loop body
IKIterate ==
  /\ ikPc = "loop"
  /\ iter < iterations
  /\ ~EarlyExit(Length(ErrorOf(targetPos, newAngles)))
  /\ newAngles' = IterationBody(targetPos, newAngles)
  /\ iter' = iter + 1
  /\ UNCHANGED <<ikPc, targetPos, currentAngles, iterations>>

\* break
IKBreak ==
  /\ ikPc = "loop"
  /\ iter < iterations
  /\ EarlyExit(Length(ErrorOf(targetPos, newAngles)))
  /\ ikPc' = "return"
  /\ UNCHANGED <<targetPos, currentAngles, iterations, newAngles, iter>>

\* the loop condition iter < iterations fails
IKExhaust ==
  /\ ikPc = "loop"
  /\ ~(iter < iterations)
  /\ ikPc' = "return"
  /\ UNCHANGED <<targetPos, currentAngles, iterations, newAngles, iter>>

IKStep == IKIterate \/ IKBreak \/ IKExhaust

----------------------------------------------------------------------------
(* solveIK called in isolation *)

Q2 == <<500000, -300000, 200000, -2000000, 100000, 1000000, -400000>>

\* every joint at its upper limit
QMax == <<2897300, 1762800, 2897300, -69800, 2897300, 3752500, 2897300>>

Seeds == {HOME, Q2, QMax}

\* [0.3, 0.0, 0.5]
TargetInside == <<300000, 0, 500000>>

\* 100 times the summed link lengths, along x
TargetFar == <<139300000, 0, 0>>

\* a target 1 mm from where the seed already is
Offset(p) == <<p[1] + K, p[2], p[3]>>

Nearby(seed) == Offset(forwardKinematics(seed))

TargetsFor(seed) == {TargetInside, TargetFar, forwardKinematics(seed), Nearby(seed)}

IterationChoices == {0, 20}

Inputs ==
  {<<t, seed, n>> : t \in UNION {TargetsFor(q) : q \in Seeds}, seed \in Seeds,
                    n \in IterationChoices}

\* the inputs whose first result is remembered
Probes == {<<TargetInside, HOME, 20>>, <<TargetFar, Q2, 20>>}

Call ==
  /\ \E in \in Inputs : IKBegin(in[1], in[2], in[3])
  /\ UNCHANGED <<armVars, firstResult, frankaVars, restVars>>

Loop ==
  /\ IKStep
  /\ UNCHANGED <<armVars, firstResult, frankaVars, restVars>>

\* return newAngles
Return ==
  /\ ikPc = "return"
  /\ ikPc' = "idle"
  /\ firstResult' =
       IF <<targetPos, currentAngles, iterations>> \in Probes
          /\ firstResult[<<targetPos, currentAngles, iterations>>] = <<>>
       THEN [firstResult EXCEPT ![<<targetPos, currentAngles, iterations>>] = newAngles]
       ELSE firstResult
  /\ UNCHANGED <<targetPos, currentAngles, iterations, newAngles, iter, armVars, frankaVars,
                 restVars>>

----------------------------------------------------------------------------
(* FrankaRobot: teleoperation effect and frame loop *)

MaxFrames == 1

MaxProps == 1

\* smoothingFactor = 0.35
smoothingFactor == 350000

\* teleopTarget = null
NullTarget ==
  [null |-> TRUE, pos |-> <<0, 0, 0>>, hasGripper |-> FALSE, gripper |-> 0]

\* a target 1 mm from the end-effector position of the home pose, gripper 0
TargetNear ==
  [null |-> FALSE, pos |-> Nearby(HOME), hasGripper |-> TRUE, gripper |-> 0]

\* the values of the teleopTarget prop: null, { pos, gripper: 1 }, a
\* { pos } far outside the workspace (a retargeted pose is scaled and offset
\* by the caller and need not be reachable), and { pos, gripper: 0 }
TeleopTargets ==
  { NullTarget,
    [null |-> FALSE, pos |-> TargetInside, hasGripper |-> TRUE, gripper |-> S],
    [null |-> FALSE, pos |-> TargetFar, hasGripper |-> FALSE, gripper |-> 0],
    TargetNear }

\* the parent passes a new teleopTarget
SetTeleopTarget(t) ==
  /\ ikPc = "idle"
  /\ ~effectPending
  /\ nProps < MaxProps
  /\ nProps' = nProps + 1
  /\ teleopTarget' = t
  /\ effectPending' = TRUE
  /\ UNCHANGED <<ghostJointAngles, targetAnglesRef, gripperOpen, teleopEnabled, nFrames,
                 armVars, ikVars, firstResult, restVars>>

\* the parent toggles teleopEnabled
ToggleTeleop ==
  /\ ikPc = "idle"
  /\ ~effectPending
  /\ nProps < MaxProps
  /\ nProps' = nProps + 1
  /\ teleopEnabled' = ~teleopEnabled
  /\ effectPending' = TRUE
  /\ UNCHANGED <<ghostJointAngles, targetAnglesRef, gripperOpen, teleopTarget, nFrames,
                 armVars, ikVars, firstResult, restVars>>

\* ghostJointAngles.map((a, i) => lerp(a, targetAnglesRef.current[i], smoothingFactor))
Smoothed(ghost, solved) ==
  <<lerp(ghost[1], solved[1], smoothingFactor), lerp(ghost[2], solved[2], smoothingFactor),
    lerp(ghost[3], solved[3], smoothingFactor), lerp(ghost[4], solved[4], smoothingFactor),
    lerp(ghost[5], solved[5], smoothingFactor), lerp(ghost[6], solved[6], smoothingFactor),
    lerp(ghost[7], solved[7], smoothingFactor)>>

\* the deps of the teleop effect compared element by element
GhostDepChangedByValue(prev, next) == prev # next

\* the dep ghostJointAngles of the teleop effect after setGhostJointAngles:
\* deps are compared with Object.is, and map() returns a new array
GhostDepChanged(prev, next) == TRUE

\* const anglesToUse = serverJointAngles || ghostJointAngles
AnglesToUse(server, ghost) == IF server # <<>> THEN server ELSE ghost

\* the useFrame callback, once the URDF model is loaded.
\* Part 1: setGhostJointAngles(smoothed) stores a new array, which is a
\* changed dep of the teleop effect.  Part 2: every angle of anglesToUse is
\* passed to robotModel.setJointValue; ghostJointAngles is there the value of
\* the render the callback belongs to, not the one just set.
Frame ==
  /\ ikPc = "idle"
  /\ nFrames < MaxFrames
  /\ nFrames' = nFrames + 1
  /\ IF teleopEnabled
     THEN /\ ghostJointAngles' = Smoothed(ghostJointAngles, targetAnglesRef)
          /\ effectPending' =
               (effectPending \/ GhostDepChanged(ghostJointAngles, ghostJointAngles'))
     ELSE UNCHANGED <<ghostJointAngles, effectPending>>
  /\ anglesToUse' = AnglesToUse(serverJointAngles, ghostJointAngles)
  /\ UNCHANGED <<targetAnglesRef, gripperOpen, teleopEnabled, teleopTarget, nProps,
                 armVars, ikVars, firstResult, serverJointAngles, panelVars, handVars,
                 trackVars, pollVars>>

\* the condition without its test of teleopEnabled
EffectConditionAnyMode == ~teleopTarget.null

\* teleopEnabled && teleopTarget && teleopTarget.pos
EffectCondition == teleopEnabled /\ ~teleopTarget.null

\* the effect calling solveIK with the previous result as the seed
EffectCallSeedSolved ==
  /\ effectPending
  /\ EffectCondition
  /\ IKBegin(teleopTarget.pos, targetAnglesRef, 20)
  /\ UNCHANGED <<frankaVars, armVars, firstResult, restVars>>

\* the teleop effect up to its call solveIK(targetPos, ghostJointAngles, 20)
EffectCall ==
  /\ effectPending
  /\ EffectCondition
  /\ IKBegin(teleopTarget.pos, ghostJointAngles, 20)
  /\ UNCHANGED <<frankaVars, armVars, firstResult, restVars>>

EffectLoop ==
  /\ effectPending
  /\ IKStep
  /\ UNCHANGED <<frankaVars, armVars, firstResult, restVars>>

\* the comparison turned round: open when the scalar is at least 0.5
GripperAfterInverted(t, open) == IF t.hasGripper THEN t.gripper >= 500000 ELSE open

\* setGripperOpen(teleopTarget.gripper < 0.5), when gripper is defined
GripperAfter(t, open) == IF t.hasGripper THEN t.gripper < 500000 ELSE open

\* the teleop effect from the return of solveIK on
EffectReturn ==
  /\ effectPending
  /\ ikPc = "return"
  /\ ikPc' = "idle"
  /\ targetAnglesRef' = newAngles
  /\ gripperOpen' = GripperAfter(teleopTarget, gripperOpen)
  /\ effectPending' = FALSE
  /\ UNCHANGED <<ghostJointAngles, teleopEnabled, teleopTarget, nFrames, nProps,
                 targetPos, currentAngles, iterations, newAngles, iter,
                 armVars, firstResult, restVars>>

\* the teleop effect when its condition is false
EffectSkip ==
  /\ effectPending
  /\ ikPc = "idle"
  /\ ~EffectCondition
  /\ effectPending' = FALSE
  /\ UNCHANGED <<ghostJointAngles, targetAnglesRef, gripperOpen, teleopEnabled,
                 teleopTarget, nFrames, nProps, armVars, ikVars, firstResult, restVars>>

----------------------------------------------------------------------------
(* FrankaRobot mounted with teleoperation on and a target that stays *)

\* the teleopTarget the component is mounted with
MountTargets == TeleopTargets \ {NullTarget}

ZeroPose == <<0, 0, 0, 0, 0, 0, 0>>

\* values of the serverJointAngles prop: null, a configuration within the
\* limits, and the all-zero array a parent starts its joint state with
ServerAngles == {<<>>, Q2, ZeroPose}

\* the parent passes new serverJointAngles (not a dep of the teleop effect)
SetServerJointAngles(a) ==
  /\ ikPc = "idle"
  /\ ~effectPending
  /\ nProps < MaxProps
  /\ a # serverJointAngles
  /\ nProps' = nProps + 1
  /\ serverJointAngles' = a
  /\ UNCHANGED <<ghostJointAngles, targetAnglesRef, gripperOpen, teleopEnabled, teleopTarget,
                 effectPending, nFrames, anglesToUse, armVars, ikVars, firstResult,
                 panelVars, handVars, trackVars, pollVars>>

----------------------------------------------------------------------------
(* FrankaRobot on the demo page (RobotArmDemo) *)

\* a keydown event on the window while FrankaRobot is mounted.  FrankaRobot
\* registers no keydown listener, calls neither setSelectedJoint nor
\* onStateChange, and RobotArmDemo registers no listener either: the event
\* is dispatched and no state changes.
FrankaKeyDown(key) ==
  /\ nKeys < MaxKeys
  /\ lastKey' = key
  /\ nKeys' = nKeys + 1
  /\ UNCHANGED <<jointAngles, selectedJoint, handlerJoint, ikVars, firstResult, frankaVars,
                 restVars>>

----------------------------------------------------------------------------
(* HandTrack: temporal smoothing of the hand position *)

MaxSamples == 4

\* const SMOOTHING_FRAMES = 3
SMOOTHING_FRAMES == 3

\* const hand = handedness === "Right" ? "right" : "left"
Hands == {"left", "right"}

\* values of data.pos as processHand returns them
HandPositions ==
  {<<500000, 0, 300000>>, <<300000, -180000, 600000>>, <<700001, 90000, -20000>>}

\* the push without the shift
PushedNoShift(buffer, newPos) == Append(buffer, newPos)

\* buffer.push(newPos); if (buffer.length > SMOOTHING_FRAMES) buffer.shift()
Pushed(buffer, newPos) ==
  IF Len(buffer) + 1 > SMOOTHING_FRAMES THEN Tail(Append(buffer, newPos))
  ELSE Append(buffer, newPos)

\* avg after buffer.forEach(pos => { avg[0] += pos[0]; ... }), from avg
RECURSIVE Accumulated(_, _)
Accumulated(avg, buffer) ==
  IF buffer = <<>> THEN avg
  ELSE Accumulated(<<avg[1] + Head(buffer)[1], avg[2] + Head(buffer)[2],
                     avg[3] + Head(buffer)[3]>>, Tail(buffer))

\* avg.map(v => v / buffer.length), to the model's resolution
Averaged(avg, length) == <<avg[1] \div length, avg[2] \div length, avg[3] \div length>>

\* what smoothPosition returns once the buffer is `buffer`
Average(buffer) == Averaged(Accumulated(<<0, 0, 0>>, buffer), Len(buffer))

\* data.pos = smoothPosition(hand, data.pos)
SmoothPosition(hand, newPos) ==
  /\ nSamples < MaxSamples
  /\ nSamples' = nSamples + 1
  /\ smoothingBuffer' = [smoothingBuffer EXCEPT ![hand] = Pushed(@, newPos)]
  /\ smoothed' = [smoothed EXCEPT ![hand] = Average(Pushed(smoothingBuffer[hand], newPos))]
  /\ rawPositions' = [rawPositions EXCEPT ![hand] = Append(@, newPos)]
  /\ UNCHANGED <<armVars, ikVars, firstResult, frankaVars, modelVars, panelVars, trackVars,
                 pollVars>>

\* the effect of HandTrack runs again (externalStream, isMirrored or
\* isRotated changed): the new run has buffers of its own, empty
HandEffectRerun ==
  /\ \E h \in Hands : rawPositions[h] # <<>>
  /\ smoothingBuffer' = [left |-> <<>>, right |-> <<>>]
  /\ rawPositions' = [left |-> <<>>, right |-> <<>>]
  /\ smoothed' = [left |-> <<>>, right |-> <<>>]
  /\ UNCHANGED <<nSamples, armVars, ikVars, firstResult, frankaVars, modelVars, panelVars,
                 trackVars, pollVars>>

----------------------------------------------------------------------------
(* HandTrack: one run of the effect, from setup() to its cleanup *)

MaxVideoFrames == 3

\* every detected hand goes to the left buffer
HandOfShared(handedness) == "left"

\* const hand = handedness === "Right" ? "right" : "left"
HandOf(handedness) == IF handedness = "Right" THEN "right" ELSE "left"

\* the gripper value as the pinch distance itself
GripperValueAnalog(pinchDist3D) == pinchDist3D

\* const gripperValue = pinchDist3D < 0.04 ? 1.0 : 0.0
GripperValue(pinchDist3D) == IF pinchDist3D < 40000 THEN S ELSE 0

\* entries of results.landmarks with their results.handedness: the
\* displayName, and the position and pinch distance processHand derives
Detections ==
  {[handedness |-> "Right", pos |-> <<500000, 0, 300000>>, pinchDist3D |-> 30000],
   [handedness |-> "Right", pos |-> <<300000, -180000, 600000>>, pinchDist3D |-> 40000],
   [handedness |-> "Left", pos |-> <<700001, 90000, -20000>>, pinchDist3D |-> 39999],
   [handedness |-> "Left", pos |-> <<300000, -180000, 600000>>, pinchDist3D |-> 120000]}

\* results.landmarks with numHands: 2
VideoFrames ==
  {<<>>} \cup {<<d>> : d \in Detections} \cup {<<d, e>> : d, e \in Detections}

\* results.handedness[i][0].displayName for each entry of results.landmarks
Handedness(landmarks) ==
  IF Len(landmarks) = 0 THEN <<>>
  ELSE IF Len(landmarks) = 1 THEN <<landmarks[1].handedness>>
  ELSE <<landmarks[1].handedness, landmarks[2].handedness>>

\* const payload = { left: null, right: null }
NoHand == [null |-> TRUE, pos |-> <<0, 0, 0>>, gripper |-> 0]

\* the body of results.landmarks.forEach for one hand: processHand, then
\* data.pos = smoothPosition(hand, data.pos), then payload.right/left = data
HandProcessed(acc, d) ==
  [buffer |-> [acc.buffer EXCEPT ![HandOf(d.handedness)] = Pushed(@, d.pos)],
   payload |-> [acc.payload EXCEPT ![HandOf(d.handedness)] =
                  [null |-> FALSE,
                   pos |-> Average(Pushed(acc.buffer[HandOf(d.handedness)], d.pos)),
                   gripper |-> GripperValue(d.pinchDist3D)]]]

\* results.landmarks.forEach(...)
RECURSIVE ForEachHand(_, _)
ForEachHand(acc, landmarks) ==
  IF landmarks = <<>> THEN acc
  ELSE ForEachHand(HandProcessed(acc, Head(landmarks)), Tail(landmarks))

\* await FilesetResolver.forVisionTasks(...) settles
SetupVision(ok) ==
  /\ trackPc = "vision"
  /\ trackPc' = IF ok THEN "landmarker" ELSE "ended"
  /\ UNCHANGED <<landmarker, localStream, animationId, cleanedUp, videoRef, detected,
                 prevDetected, posed, nVideoFrames, ranAfterCleanup, posedAfterCleanup>>
  /\ UNCHANGED <<armVars, ikVars, firstResult, frankaVars, modelVars, panelVars, handVars,
                 pollVars>>

\* await HandLandmarker.createFromOptions(...) settles; with an external
\* stream setup() goes on to the video element without another await
SetupLandmarker(ok, externalStream) ==
  /\ trackPc = "landmarker"
  /\ landmarker' = IF ok THEN "open" ELSE landmarker
  /\ trackPc' = IF ~ok THEN "ended"
                ELSE IF ~externalStream THEN "camera"
                ELSE IF videoRef THEN "loading" ELSE "ended"
  /\ UNCHANGED <<localStream, animationId, cleanedUp, videoRef, detected,
                 prevDetected, posed, nVideoFrames, ranAfterCleanup, posedAfterCleanup>>
  /\ UNCHANGED <<armVars, ikVars, firstResult, frankaVars, modelVars, panelVars, handVars,
                 pollVars>>

\* await navigator.mediaDevices.getUserMedia(...) settles;
\* if (videoRef.current) { srcObject = stream; onloadeddata = ... }
SetupCamera(ok) ==
  /\ trackPc = "camera"
  /\ localStream' = IF ok THEN "live" ELSE localStream
  /\ trackPc' = IF ok /\ videoRef THEN "loading" ELSE "ended"
  /\ UNCHANGED <<landmarker, animationId, cleanedUp, videoRef, detected,
                 prevDetected, posed, nVideoFrames, ranAfterCleanup, posedAfterCleanup>>
  /\ UNCHANGED <<armVars, ikVars, firstResult, frankaVars, modelVars, panelVars, handVars,
                 pollVars>>

\* predict(), called by onloadeddata or by the requested animation frame.
\* detectForVideo on a landmarker that was closed may throw.
Predict(landmarks, threw) ==
  /\ trackPc = "loading" \/ animationId = "pending"
  /\ nVideoFrames < MaxVideoFrames
  /\ threw => landmarker = "closed" /\ videoRef
  /\ nVideoFrames' = nVideoFrames + 1
  /\ trackPc' = "ended"
  /\ IF landmarker = "null" \/ ~videoRef \/ threw
     THEN /\ animationId' = IF animationId = "pending" THEN "none" ELSE animationId
          /\ posed' = <<>>
          /\ ranAfterCleanup' = (ranAfterCleanup \/ (cleanedUp /\ threw))
          /\ UNCHANGED <<smoothingBuffer, detected, prevDetected, posedAfterCleanup>>
     ELSE /\ smoothingBuffer' =
               ForEachHand([buffer |-> smoothingBuffer,
                            payload |-> [left |-> NoHand, right |-> NoHand]],
                           landmarks).buffer
          /\ posed' =
               IF Len(landmarks) > 0
               THEN <<ForEachHand([buffer |-> smoothingBuffer,
                                   payload |-> [left |-> NoHand, right |-> NoHand]],
                                  landmarks).payload>>
               ELSE <<>>
          /\ detected' = Handedness(landmarks)
          /\ prevDetected' = detected
          /\ animationId' = "pending"
          /\ ranAfterCleanup' = (ranAfterCleanup \/ cleanedUp)
          /\ posedAfterCleanup' = (posedAfterCleanup \/ (cleanedUp /\ Len(landmarks) > 0))
  /\ UNCHANGED <<landmarker, localStream, cleanedUp, videoRef>>
  /\ UNCHANGED <<rawPositions, smoothed, nSamples>>
  /\ UNCHANGED <<armVars, ikVars, firstResult, frankaVars, modelVars, panelVars, pollVars>>

\* the cleanup: cancelAnimationFrame(animationId); if (landmarker)
\* landmarker.close(); if (localStream) ...stop().  On unmount the refs of
\* the video and canvas elements are cleared.
Cleanup(unmount) ==
  /\ ~cleanedUp
  /\ cleanedUp' = TRUE
  /\ animationId' = IF animationId = "pending" THEN "cancelled" ELSE animationId
  /\ landmarker' = IF landmarker = "open" THEN "closed" ELSE landmarker
  /\ localStream' = IF localStream = "live" THEN "stopped" ELSE localStream
  /\ videoRef' = (videoRef /\ ~unmount)
  /\ UNCHANGED <<trackPc, detected, prevDetected, posed, nVideoFrames, ranAfterCleanup,
                 posedAfterCleanup>>
  /\ UNCHANGED <<armVars, ikVars, firstResult, frankaVars, modelVars, panelVars, handVars,
                 pollVars>>

\* after a cleanup without unmount the next run of the effect assigns
\* videoRef.current.onloadeddata, which replaces the handler of this run
Superseded ==
  /\ cleanedUp
  /\ videoRef
  /\ trackPc = "loading"
  /\ trackPc' = "ended"
  /\ UNCHANGED <<landmarker, localStream, animationId, cleanedUp, videoRef, detected,
                 prevDetected, posed, nVideoFrames, ranAfterCleanup, posedAfterCleanup>>
  /\ UNCHANGED <<armVars, ikVars, firstResult, frankaVars, modelVars, panelVars, handVars,
                 pollVars>>

----------------------------------------------------------------------------
(* BatchProgressPanel: polling of a batch job *)

MaxPolls == 3

\* the server finishes video v; the job is reported finished (js) once no
\* video is processing any more
ServerStep(v, st, js) ==
  /\ videoStatus[v] = "processing"
  /\ videoStatus' = [videoStatus EXCEPT ![v] = st]
  /\ (js = "processing") = (\E w \in 1 .. 2 : videoStatus'[w] = "processing")
  /\ jobStatus' = js
  /\ UNCHANGED <<pollPc, interval, notifications, doneReported, pollsAfterDone, nPolls>>
  /\ UNCHANGED <<armVars, ikVars, firstResult, frankaVars, modelVars, panelVars, handVars,
                 trackVars>>

\* res.videos.forEach(vid => { if (vid.status === 'complete' && !vid.notified)
\* { onVideoComplete(vid); vid.notified = true; } }): res is the object parsed
\* from this response, so no vid of it carries the flag set on an earlier one
Notified(videos, counts) ==
  <<counts[1] + (IF videos[1] = "complete" THEN 1 ELSE 0),
    counts[2] + (IF videos[2] = "complete" THEN 1 ELSE 0)>>

\* the effect runs with a jobId: fetchStatus() is called and the interval set
MountPanel ==
  /\ pollPc = "unmounted"
  /\ pollPc' = "mounted"
  /\ interval' = "active"
  /\ nPolls' = nPolls + 1
  /\ UNCHANGED <<videoStatus, jobStatus, notifications, doneReported, pollsAfterDone>>
  /\ UNCHANGED <<armVars, ikVars, firstResult, frankaVars, modelVars, panelVars, handVars,
                 trackVars>>

\* the response to the first fetchStatus() arrives (ok) or the fetch fails;
\* what fetchStatus returns is not used
InitialResponse(ok) ==
  /\ pollPc = "mounted"
  /\ pollPc' = "polling"
  /\ notifications' = IF ok THEN Notified(videoStatus, notifications) ELSE notifications
  /\ doneReported' = (doneReported \/ (ok /\ jobStatus \in {"complete", "failed"}))
  /\ UNCHANGED <<videoStatus, jobStatus, interval, pollsAfterDone, nPolls>>
  /\ UNCHANGED <<armVars, ikVars, firstResult, frankaVars, modelVars, panelVars, handVars,
                 trackVars>>

\* the interval fires: const done = await fetchStatus(); if (done) clearInterval(interval)
IntervalPoll(ok) ==
  /\ pollPc = "polling"
  /\ interval = "active"
  /\ nPolls < MaxPolls
  /\ nPolls' = nPolls + 1
  /\ pollsAfterDone' = pollsAfterDone + (IF doneReported THEN 1 ELSE 0)
  /\ notifications' = IF ok THEN Notified(videoStatus, notifications) ELSE notifications
  /\ doneReported' = (doneReported \/ (ok /\ jobStatus \in {"complete", "failed"}))
  /\ interval' = IF ok /\ jobStatus \in {"complete", "failed"} THEN "cleared" ELSE interval
  /\ UNCHANGED <<videoStatus, jobStatus, pollPc>>
  /\ UNCHANGED <<armVars, ikVars, firstResult, frankaVars, modelVars, panelVars, handVars,
                 trackVars>>

\* the cleanup of the effect: clearInterval(interval)
PanelCleanup ==
  /\ interval = "active"
  /\ interval' = "cleared"
  /\ UNCHANGED <<videoStatus, jobStatus, pollPc, notifications, doneReported, pollsAfterDone,
                 nPolls>>
  /\ UNCHANGED <<armVars, ikVars, firstResult, frankaVars, modelVars, panelVars, handVars,
                 trackVars>>

----------------------------------------------------------------------------
(* solveIK called with a seed that is outside the joint limits *)

\* the home pose with joint 0 at 3.0 rad, above its limit 2.8973
QOver == <<3000000, 0, 0, -HALF_PI, 0, HALF_PI, 0>>

\* ZeroPose has joint 3 at 0, above its limit -0.0698
SeedsOutside == {ZeroPose, QOver}

\* a target 0.1 m above where the seed already is
Up(p) == <<p[1], p[2], p[3] + 100000>>

OutsideTargetsFor(seed) ==
  {TargetInside, TargetFar, forwardKinematics(seed), Up(forwardKinematics(seed))}

OutsideInputs ==
  UNION {{<<t, seed, n>> : t \in OutsideTargetsFor(seed), n \in IterationChoices} :
           seed \in SeedsOutside}

CallOutside ==
  /\ \E in \in OutsideInputs : IKBegin(in[1], in[2], in[3])
  /\ UNCHANGED <<armVars, firstResult, frankaVars, restVars>>

----------------------------------------------------------------------------
(* Specifications *)

InitArm ==
  /\ jointAngles = <<0, 0, 0, 0, 0, 0, 0>>
  /\ selectedJoint = 0
  /\ handlerJoint = 0
  /\ lastKey = ""
  /\ nKeys = 0

InitIK ==
  /\ ikPc = "idle"
  /\ targetPos = <<0, 0, 0>>
  /\ currentAngles = HOME
  /\ iterations = 0
  /\ newAngles = HOME
  /\ iter = 0
  /\ firstResult = [in \in Probes |-> <<>>]

\* the state of FrankaRobot after its first render, whatever its props; the
\* teleop effect runs once after the first render
InitState ==
  /\ ghostJointAngles = HOME
  /\ targetAnglesRef = HOME
  /\ gripperOpen = TRUE
  /\ effectPending = TRUE
  /\ nFrames = 0
  /\ nProps = 0
  /\ serverJointAngles = <<>>
  /\ anglesToUse = <<>>
  /\ frankaSelectedJoint = 0

\* the component mounted with the default props:
\* teleopEnabled = false, teleopTarget = null
InitFranka ==
  /\ InitState
  /\ teleopEnabled = FALSE
  /\ teleopTarget = NullTarget

\* the component mounted with the teleop props a scene passes
InitMounted ==
  /\ InitState
  /\ teleopEnabled \in BOOLEAN
  /\ teleopTarget \in TeleopTargets

\* RobotArmDemo: useState([0, 0, 0, 0, 0, 0, 0]), useState(0)
InitDemo ==
  /\ demoJointAngles = <<0, 0, 0, 0, 0, 0, 0>>
  /\ demoSelectedJoint = 0

\* HandTrack: const smoothingBuffer = { left: [], right: [] }
InitHand ==
  /\ smoothingBuffer = [left |-> <<>>, right |-> <<>>]
  /\ rawPositions = [left |-> <<>>, right |-> <<>>]
  /\ smoothed = [left |-> <<>>, right |-> <<>>]
  /\ nSamples = 0

\* HandTrack's effect has called setup(), which awaits the vision files
InitTrack ==
  /\ trackPc = "vision"
  /\ landmarker = "null"
  /\ localStream = "null"
  /\ animationId = "none"
  /\ cleanedUp = FALSE
  /\ videoRef = TRUE
  /\ detected = <<>>
  /\ prevDetected = <<>>
  /\ posed = <<>>
  /\ nVideoFrames = 0
  /\ ranAfterCleanup = FALSE
  /\ posedAfterCleanup = FALSE

\* BatchProgressPanel before its effect has run, and a job of two videos
InitPoll ==
  /\ videoStatus = <<"processing", "processing">>
  /\ jobStatus = "processing"
  /\ pollPc = "unmounted"
  /\ interval = "none"
  /\ notifications = <<0, 0>>
  /\ doneReported = FALSE
  /\ pollsAfterDone = 0
  /\ nPolls = 0

Init ==
  InitArm /\ InitIK /\ InitFranka /\ InitDemo /\ InitHand /\ InitTrack /\ InitPoll

NextArm == (\E key \in Keys : KeyDown(key)) \/ KeyboardEffect

SpecArm == Init /\ [][NextArm]_vars

NextIK == Call \/ Loop \/ Return

SpecIK == Init /\ [][NextIK]_vars

NextFranka ==
  \/ \E t \in TeleopTargets : SetTeleopTarget(t)
  \/ ToggleTeleop
  \/ Frame
  \/ EffectCall
  \/ EffectLoop
  \/ EffectReturn
  \/ EffectSkip

InitScene ==
  InitArm /\ InitIK /\ InitMounted /\ InitDemo /\ InitHand /\ InitTrack /\ InitPoll

SpecFranka == InitScene /\ [][NextFranka]_vars

\* key events may arrive while the keyboard effect is still pending
NextArmRace ==
  \/ \E key \in Keys : KeyDown(key)
  \/ \E key \in Keys : KeyDownBeforeEffect(key)
  \/ KeyboardEffect

SpecArmRace == Init /\ [][NextArmRace]_vars

NextTrack ==
  \/ \E ok \in BOOLEAN : SetupVision(ok)
  \/ \E ok \in BOOLEAN, externalStream \in BOOLEAN : SetupLandmarker(ok, externalStream)
  \/ \E ok \in BOOLEAN : SetupCamera(ok)
  \/ \E landmarks \in VideoFrames, threw \in BOOLEAN : Predict(landmarks, threw)
  \/ \E unmount \in BOOLEAN : Cleanup(unmount)
  \/ Superseded

SpecTrack == Init /\ [][NextTrack]_vars

NextPoll ==
  \/ \E v \in 1 .. 2, st \in {"complete", "failed"}, js \in {"processing", "complete", "failed"} :
       ServerStep(v, st, js)
  \/ MountPanel
  \/ \E ok \in BOOLEAN : InitialResponse(ok)
  \/ \E ok \in BOOLEAN : IntervalPoll(ok)
  \/ PanelCleanup

SpecPoll == Init /\ [][NextPoll]_vars

NextIKOutside == CallOutside \/ Loop \/ Return

SpecIKOutside == Init /\ [][NextIKOutside]_vars

\* RobotArmDemo renders <FrankaRobot position onStateChange>: default teleop props
NextDemo ==
  \/ \E key \in Keys : FrankaKeyDown(key)
  \/ Frame
  \/ EffectSkip

SpecDemo == Init /\ [][NextDemo]_vars

NextHand ==
  \/ \E h \in Hands, p \in HandPositions : SmoothPosition(h, p)
  \/ HandEffectRerun

SpecHand == Init /\ [][NextHand]_vars

\* the component as a scene mounts it: teleopEnabled={true} and a target
InitTeleop ==
  /\ InitState
  /\ teleopEnabled = TRUE
  /\ teleopTarget \in MountTargets

NextTeleop ==
  \/ Frame
  \/ EffectCall
  \/ EffectLoop
  \/ EffectReturn
  \/ \E a \in ServerAngles : SetServerJointAngles(a)

InitTeleopScene ==
  InitArm /\ InitIK /\ InitTeleop /\ InitDemo /\ InitHand /\ InitTrack /\ InitPoll

SpecTeleop == InitTeleopScene /\ [][NextTeleop]_vars

----------------------------------------------------------------------------
(* Properties of RobotArm7DOF, under SpecArm *)

\* a keydown event with this key has just been handled
Handled(key) == nKeys' = nKeys + 1 /\ lastKey' = key

\* C1: in the manual-control arm every stored joint angle lies within its
\* limit pair in every reachable state, the initial state included.
C1_ManualAnglesWithinLimits ==
  \A i \in Joints : limits[i][1] <= jointAngles[i] /\ jointAngles[i] <= limits[i][2]

\* C3: once joint index 3 is selected its angle is never greater than
\* -0.0698, whatever the number of ArrowUp commands, and at -0.0698 a further
\* ArrowUp leaves it exactly there.
C3_Joint3StopsAtMax ==
  [][ /\ (selectedJoint' = 3 => jointAngles'[4] <= -69800)
      /\ (selectedJoint = 3 /\ jointAngles[4] = -69800 /\ Handled("ArrowUp")
            => jointAngles'[4] = -69800) ]_vars

\* C4: a select key whose index is outside 0..6 ('0' gives -1, '8' gives 7)
\* changes neither the selection nor any angle, and the selected joint index
\* is in 0..6 in every reachable state.
C4_OutOfRangeSelectIsNoOp ==
  /\ selectedJoint \in 0 .. 6
  /\ [][ /\ selectedJoint' \in 0 .. 6
         /\ (Handled("0") \/ Handled("8")
               => selectedJoint' = selectedJoint /\ jointAngles' = jointAngles) ]_vars

C4_Witness ==
  lastKey \in {"0", "8"} /\ selectedJoint = 5 /\ jointAngles[6] # 0

C25_RotateActsOnLatestSelection ==
  [][ \A key \in {"ArrowUp", "ArrowDown"} :
        Handled(key) =>
          \A j \in Joints :
            jointAngles'[j] =
              IF j = selectedJoint + 1
              THEN Max(limits[j][1],
                       Min(limits[j][2],
                           jointAngles[j] + (IF key = "ArrowUp" THEN 100000 ELSE -100000)))
              ELSE jointAngles[j] ]_vars

\* C6: from any reachable state the reset command sets the joint
\* configuration to the home pose [0, 0, 0, -pi/2, 0, pi/2, 0] and the
\* selected joint index to 0.
C6_ResetToHomePose ==
  [][ Handled("r") \/ Handled("R") => jointAngles' = HOME /\ selectedJoint' = 0 ]_vars

----------------------------------------------------------------------------
(* Properties of FrankaRobot, under SpecFranka *)

\* C2: after any interleaving of target updates, teleop toggles and frame
\* ticks, every element of the solved configuration (targetAnglesRef) and of
\* the smoothed one (ghostJointAngles) lies within its JOINT_LIMITS pair.
C2_TeleopWithinLimits ==
  /\ \A j \in Joints :
       JOINT_LIMITS[j][1] <= targetAnglesRef[j] /\ targetAnglesRef[j] <= JOINT_LIMITS[j][2]
  /\ \A j \in Joints :
       JOINT_LIMITS[j][1] <= ghostJointAngles[j] /\ ghostJointAngles[j] <= JOINT_LIMITS[j][2]

\* a frame was smoothed toward a solution that sits on a joint limit, and
\* the solve that followed it has been stored
C2_Witness ==
  /\ teleopEnabled
  /\ ~effectPending
  /\ nFrames = MaxFrames
  /\ ghostJointAngles # HOME
  /\ \E j \in Joints : targetAnglesRef[j] = JOINT_LIMITS[j][2]
  /\ \E j \in Joints : targetAnglesRef[j] = JOINT_LIMITS[j][1]

\* C11: on every frame tick while teleoperation is enabled each visual joint
\* angle becomes visual[i] + 0.35 * (solved[i] - visual[i]), whether or not a
\* new target arrived since the previous tick.
C11_FrameSmooths ==
  [][ nFrames' = nFrames + 1 /\ teleopEnabled
        => \A j \in Joints :
             ghostJointAngles'[j] =
               ghostJointAngles[j] + MulS(targetAnglesRef[j] - ghostJointAngles[j], 350000)
    ]_vars

\* a frame has just moved the visual pose part of the way to the solved one
C11_Witness ==
  /\ teleopEnabled
  /\ nFrames = MaxFrames
  /\ effectPending
  /\ ikPc = "idle"
  /\ ghostJointAngles # HOME
  /\ ghostJointAngles # targetAnglesRef

\* C15: while teleopEnabled is false neither a change of teleopTarget nor a
\* frame tick changes the solved configuration, the visual configuration or
\* the gripper state; while it is true the solved configuration and the
\* gripper are written only where the teleop effect stores the result of
\* solveIK, and the visual configuration only by the smoothing of a frame tick.
C15_WritesOnlyWhileEnabled ==
  [][ /\ (~teleopEnabled
            => UNCHANGED <<targetAnglesRef, ghostJointAngles, gripperOpen>>)
      /\ (targetAnglesRef' # targetAnglesRef
            => teleopEnabled /\ ikPc = "return" /\ targetAnglesRef' = newAngles)
      /\ (gripperOpen' # gripperOpen => teleopEnabled /\ ikPc = "return")
      /\ (ghostJointAngles' # ghostJointAngles
            => /\ teleopEnabled
               /\ nFrames' = nFrames + 1
               /\ ghostJointAngles' = Smoothed(ghostJointAngles, targetAnglesRef)) ]_vars

\* with teleoperation off a target carrying a gripper value was passed, the
\* effect ran and a frame ticked
C15_Witness ==
  /\ ~teleopEnabled
  /\ nProps = 1
  /\ teleopTarget.pos = TargetInside
  /\ nFrames = MaxFrames
  /\ ~effectPending

\* C16: when a target with a gripper scalar g is consumed while
\* teleoperation is enabled the gripper becomes closed iff g >= 0.5 and open
\* iff g < 0.5; a target without a gripper value leaves it unchanged.
C16_GripperThreshold ==
  [][ ikPc = "return" /\ ikPc' = "idle"
        => /\ (teleopTarget.hasGripper /\ teleopTarget.gripper >= 500000 => ~gripperOpen')
           /\ (teleopTarget.hasGripper /\ teleopTarget.gripper < 500000 => gripperOpen')
           /\ (~teleopTarget.hasGripper => gripperOpen' = gripperOpen) ]_vars

\* the gripper was closed by a target with gripper 1, and a target without a
\* gripper value has been consumed since
C16_Witness ==
  /\ teleopEnabled
  /\ ~effectPending
  /\ ikPc = "idle"
  /\ nProps = 1
  /\ ~teleopTarget.null
  /\ ~teleopTarget.hasGripper
  /\ targetAnglesRef # HOME
  /\ ~gripperOpen

----------------------------------------------------------------------------
(* Properties of FrankaRobot mounted with a target that stays, under SpecTeleop *)

\* C12 as stated, its safety half: while no new target arrives the solved
\* configuration, once a solve has stored one, stays fixed.
C12_SolvedStaysFixed ==
  [][ targetAnglesRef # HOME => targetAnglesRef' = targetAnglesRef ]_vars

\* C12, amended: while no new target arrives every frame tick makes the
\* teleop effect due again; each solve is for the current target, is seeded
\* with the current visual configuration, and its result replaces the solved
\* configuration.  Once the visual configuration is within 0.002 of the
\* target the solve returns the visual configuration itself, and a frame tick
\* with visual = solved leaves the visual configuration unchanged.
C12_ResolvedEveryTick ==
  /\ [][ nFrames' = nFrames + 1 => effectPending' ]_vars
  /\ [][ ikPc = "return" /\ ikPc' = "idle"
           => /\ targetPos = teleopTarget.pos
              /\ currentAngles = ghostJointAngles
              /\ targetAnglesRef' = newAngles
              /\ (Length(SubVectors(teleopTarget.pos, forwardKinematics(ghostJointAngles)))
                    < EPSILON
                  => targetAnglesRef' = ghostJointAngles) ]_vars
  /\ [][ nFrames' = nFrames + 1 /\ targetAnglesRef = ghostJointAngles
           => ghostJointAngles' = ghostJointAngles ]_vars

\* the second solve for the same target, seeded with the moved visual pose,
\* has been stored
C12_Witness ==
  /\ teleopTarget.pos = TargetInside
  /\ nFrames = MaxFrames
  /\ ~effectPending
  /\ ikPc = "idle"
  /\ currentAngles = ghostJointAngles
  /\ ghostJointAngles # HOME
  /\ targetAnglesRef = newAngles
  /\ targetAnglesRef # ghostJointAngles

\* C13 as stated: each IK solve is seeded with the previous IK result.
C13_SeedIsPreviousSolve ==
  [][ ikPc = "idle" /\ ikPc' = "loop" => currentAngles' = targetAnglesRef ]_vars

\* C13, amended: each IK solve of the teleop effect is seeded with the
\* visual configuration ghostJointAngles as the last frame tick left it (the
\* home pose before the first tick), for the current target and 20 passes.
C13_SeedIsVisual ==
  [][ ikPc = "idle" /\ ikPc' = "loop"
        => /\ currentAngles' = ghostJointAngles
           /\ newAngles' = ghostJointAngles
           /\ targetPos' = teleopTarget.pos
           /\ iterations' = 20 ]_vars

\* a solve is running whose seed is a visual pose that a frame tick moved
\* away from home and that differs from the previous result
C13_Witness ==
  /\ ikPc = "loop"
  /\ nFrames >= 1
  /\ currentAngles = ghostJointAngles
  /\ ghostJointAngles # HOME
  /\ ghostJointAngles # targetAnglesRef

\* C14: every configuration handed to the joint state from outside is within
\* JOINT_LIMITS when it is stored (targetAnglesRef) or passed to the robot
\* model (setJointValue).
C14_IncomingClamped ==
  /\ WithinLimits(targetAnglesRef)
  /\ (anglesToUse # <<>> => WithinLimits(anglesToUse))

----------------------------------------------------------------------------
(* Properties of FrankaRobot on the demo page, under SpecDemo *)

\* C18: in FrankaRobot a key 1-7 selects the joint, ArrowUp / ArrowDown
\* move the selected joint's angle by 0.1 within its limits, and R resets the
\* joints to the home pose and the selection to 0, as in the standalone arm.
C18_FrankaKeyboardControl ==
  [][ /\ \A key \in {"1", "2", "3", "4", "5", "6", "7"} :
           Handled(key) => frankaSelectedJoint' = parseInt(key) - 1
      /\ (Handled("ArrowUp")
            => ghostJointAngles'[frankaSelectedJoint + 1] =
                 clampJoint(ghostJointAngles[frankaSelectedJoint + 1] + 100000,
                            frankaSelectedJoint + 1))
      /\ (Handled("ArrowDown")
            => ghostJointAngles'[frankaSelectedJoint + 1] =
                 clampJoint(ghostJointAngles[frankaSelectedJoint + 1] - 100000,
                            frankaSelectedJoint + 1))
      /\ (Handled("r") \/ Handled("R")
            => ghostJointAngles' = HOME /\ frankaSelectedJoint' = 0) ]_vars

\* C19: once the effects of a change have run, the joint angles and the
\* selected joint held by the parent equal the component's.
C19_ParentMirrorsState ==
  ~effectPending
    => demoJointAngles = ghostJointAngles /\ demoSelectedJoint = frankaSelectedJoint

----------------------------------------------------------------------------
(* Properties of HandTrack, under SpecHand *)

\* C17: for each hand, after the k-th raw position pushed to the hand's buffer
\* (k >= 1) smoothPosition has returned the component-wise arithmetic mean of
\* the hand's most recent min(k, 3) raw positions (here to the model's
\* resolution: the mean rounded down), and the buffer never holds more than 3
\* samples.
C17_RollingMean ==
  \A h \in Hands :
    /\ Len(smoothingBuffer[h]) <= 3
    /\ (rawPositions[h] # <<>> =>
          LET k == Len(rawPositions[h])
              n == IF k < 3 THEN k ELSE 3
              total(c) ==
                rawPositions[h][k][c]
                  + (IF n >= 2 THEN rawPositions[h][k - 1][c] ELSE 0)
                  + (IF n >= 3 THEN rawPositions[h][k - 2][c] ELSE 0)
          IN  \A c \in 1 .. 3 :
                /\ n * smoothed[h][c] <= total(c)
                /\ total(c) < n * smoothed[h][c] + n)

\* the right hand's fourth position pushed out its first, which differed
\* from all later ones, while the left hand has one sample
C17_Witness ==
  /\ Len(rawPositions["right"]) = 4
  /\ \A i \in 2 .. 4 : rawPositions["right"][i] # rawPositions["right"][1]
  /\ rawPositions["right"][2] # rawPositions["right"][3]
  /\ smoothingBuffer["right"] = Tail(rawPositions["right"])

----------------------------------------------------------------------------
(* Properties of one run of HandTrack's effect, under SpecTrack *)

\* predict has processed a video frame
FrameProcessed == nVideoFrames' = nVideoFrames + 1 /\ animationId' = "pending"

\* the displayName under which a hand is reported
NameOf(h) == IF h = "right" THEN "Right" ELSE "Left"

Seen(names, h) == \E i \in 1 .. Len(names) : names[i] = NameOf(h)

\* `after` is `before` with one sample pushed and at most the oldest dropped
OnePushed(before, after) ==
  /\ Len(after) = (IF Len(before) < 3 THEN Len(before) + 1 ELSE 3)
  /\ \A i \in 1 .. Len(after) - 1 : after[i] = before[Len(before) + 1 - Len(after) + i]

\* pos is the mean, rounded down, of the samples of buffer
MeanOf(buffer, pos) ==
  \A c \in 1 .. 3 :
    LET total == (IF Len(buffer) >= 1 THEN buffer[1][c] ELSE 0)
                   + (IF Len(buffer) >= 2 THEN buffer[2][c] ELSE 0)
                   + (IF Len(buffer) >= 3 THEN buffer[3][c] ELSE 0)
    IN  Len(buffer) * pos[c] <= total /\ total < Len(buffer) * pos[c] + Len(buffer)

\* C26: the left and right buffers are independent.  A processed frame leaves
\* the buffer of a hand that was not detected unchanged (both buffers when no
\* hand was detected); a frame with one hand detected pushes one sample to
\* that hand's buffer, which drops at most its oldest sample, whatever the
\* frames before detected, and the position reported is the mean of that
\* buffer, samples from before a gap included.
C26_BuffersIndependent ==
  [][ FrameProcessed =>
        \A h \in Hands :
          /\ ~Seen(detected', h) => smoothingBuffer'[h] = smoothingBuffer[h]
          /\ detected' = <<NameOf(h)>> =>
                /\ OnePushed(smoothingBuffer[h], smoothingBuffer'[h])
                /\ MeanOf(smoothingBuffer'[h], posed'[1][h].pos) ]_vars

\* the left hand was seen, then no hand, then the left hand at another
\* position: the buffer holds both samples and the right buffer is empty
C26_Witness ==
  /\ nVideoFrames = 3
  /\ detected = <<"Left">>
  /\ prevDetected = <<>>
  /\ Len(smoothingBuffer["left"]) = 2
  /\ smoothingBuffer["left"][1] # smoothingBuffer["left"][2]
  /\ smoothingBuffer["right"] = <<>>
  /\ Len(posed) = 1

\* C27: a call of predict calls onPose at most once, and only for a frame in
\* which at least one hand was detected; in the payload a hand that was not
\* detected in the frame is null, and a detected hand carries the mean of its
\* buffer as position and a gripper value that is exactly 0 or 1.
C27_PosePayload ==
  /\ Len(posed) <= 1
  /\ Len(posed) = 1 => Len(detected) > 0
  /\ Len(posed) = 1 =>
       \A h \in Hands :
         IF Seen(detected, h)
         THEN /\ ~posed[1][h].null
              /\ MeanOf(smoothingBuffer[h], posed[1][h].pos)
              /\ posed[1][h].gripper \in {0, S}
         ELSE posed[1][h].null

\* the right hand alone was detected, pinching, for the second time at least
C27_Witness ==
  /\ Len(posed) = 1
  /\ detected = <<"Right">>
  /\ posed[1]["left"].null
  /\ ~posed[1]["right"].null
  /\ posed[1]["right"].gripper = S
  /\ Len(smoothingBuffer["right"]) >= 2

\* C28: after the cleanup of the run, predict never passes its guard again,
\* onPose is never called again, no frame callback is pending, and the
\* landmarker and the locally opened camera stream are not left open, also
\* when the cleanup came while setup() was still awaiting.
C28_NothingAfterCleanup ==
  cleanedUp =>
    /\ ~ranAfterCleanup
    /\ ~posedAfterCleanup
    /\ animationId # "pending"
    /\ landmarker # "open"
    /\ localStream # "live"

----------------------------------------------------------------------------
(* Properties of BatchProgressPanel, under SpecPoll *)

\* C29: over the whole sequence of polls onVideoComplete is called at most
\* once for each completed video, and no poll is started after a poll has
\* reported the job status 'complete' or 'failed'.
C29_NotifiedOncePollingStops ==
  /\ \A v \in 1 .. 2 : notifications[v] <= 1
  /\ pollsAfterDone = 0

----------------------------------------------------------------------------
(* Properties of solveIK, under SpecIK *)

\* C7: solveIK runs at most `iterations` passes of its loop, and the
\* estimate is within the joint limits at the end of every pass and on
\* return, for far-away targets as for near ones.
C7_BoundedAndWithinLimits ==
  /\ iter <= iterations
  /\ (ikPc \in {"loop", "return"} => WithinLimits(newAngles))

\* the target 100 reaches away used all 20 passes and left joints sitting on
\* a lower and on an upper limit
C7_Witness ==
  /\ ikPc = "return"
  /\ targetPos = TargetFar
  /\ currentAngles = HOME
  /\ iter = 20
  /\ newAngles[1] = JOINT_LIMITS[1][1]
  /\ newAngles[4] = JOINT_LIMITS[4][2]

\* C8: when the error magnitude at the start of a pass is below 0.002 the
\* loop stops at once and the estimate is returned unmodified; when the seed
\* already satisfies this the result is the seed.
C8_EarlyExitReturnsEstimate ==
  /\ [][ ikPc = "loop" /\ iter < iterations
           /\ Length(SubVectors(targetPos, forwardKinematics(newAngles))) < EPSILON
         => ikPc' = "return" /\ newAngles' = newAngles ]_vars
  /\ [](ikPc = "return" /\ iterations > 0
          /\ Length(SubVectors(targetPos, forwardKinematics(currentAngles))) < EPSILON
        => newAngles = currentAngles /\ iter = 0)

\* a call whose target was 1 mm from the seed's position returned the seed
C8_Witness ==
  /\ ikPc = "return"
  /\ iterations = 20
  /\ iter = 0
  /\ currentAngles = Q2
  /\ targetPos = Nearby(Q2)
  /\ newAngles = Q2

\* C9: for q within limits, solveIK(FK(q), q) returns a configuration
\* whose FK position is within 0.002 of FK(q).
C9_RoundTrip ==
  ikPc = "return" /\ WithinLimits(currentAngles)
    /\ targetPos = forwardKinematics(currentAngles)
  => Length(SubVectors(forwardKinematics(newAngles), forwardKinematics(currentAngles)))
       < EPSILON

C9_Witness ==
  /\ ikPc = "return"
  /\ iterations = 20
  /\ currentAngles = Q2
  /\ targetPos = forwardKinematics(Q2)

\* the angle of joint j after one pass, computed for that joint alone from
\* the estimate, position and error at the start of the pass
JointAfterPass(angles, currentPos, error, adaptiveStep, j) ==
  clampJoint(angles[j] + Update(Dot(Column(angles, currentPos, j), error), adaptiveStep, j), j)

AllAfterPass(angles, next, currentPos, error, adaptiveStep) ==
  \A j \in Joints : next[j] = JointAfterPass(angles, currentPos, error, adaptiveStep, j)

PassFrom(target, angles, next, currentPos) ==
  AllAfterPass(angles, next, currentPos, SubVectors(target, currentPos),
               AdaptiveStep(Length(SubVectors(target, currentPos))))

\* C20: within one pass of solveIK every Jacobian column is estimated from
\* the same unperturbed estimate and the gradients use the same error vector:
\* each joint j ends the pass at clamp(old[j] + update_j), where update_j
\* depends only on the estimate at the start of the pass; no perturbation by
\* delta remains and the update of one joint does not enter another's.
C20_ColumnsFromStartOfPass ==
  [][ ikPc = "loop" /\ iter' = iter + 1
        => PassFrom(targetPos, newAngles, newAngles', forwardKinematics(newAngles)) ]_vars

\* the first pass toward [0.3, 0, 0.5] from home has moved several joints
C20_Witness ==
  /\ ikPc = "loop"
  /\ iter = 1
  /\ targetPos = TargetInside
  /\ currentAngles = HOME
  /\ newAngles[1] # HOME[1]
  /\ newAngles[2] # HOME[2]
  /\ newAngles[4] # HOME[4]

\* the step rule at one error magnitude: min(0.15, 0.5 * errorMag), capped at
\* 0.15 and below the cap once the error is below 0.3
StepRule(errorMag) ==
  /\ AdaptiveStep(errorMag) = Min(150000, MulS(500000, errorMag))
  /\ AdaptiveStep(errorMag) <= 150000
  /\ errorMag >= 300000 => AdaptiveStep(errorMag) = 150000
  /\ errorMag < 300000 => AdaptiveStep(errorMag) < 150000

\* a smaller error never gives a larger step, and below 0.3 a smaller error
\* gives a smaller step
StepDecreases(errorBefore, errorAfter) ==
  /\ errorAfter <= errorBefore => AdaptiveStep(errorAfter) <= AdaptiveStep(errorBefore)
  /\ errorAfter + 2 <= errorBefore /\ errorBefore < 300000
       => AdaptiveStep(errorAfter) < AdaptiveStep(errorBefore)

\* gradient * step * (1.0 for joints 0-2, 0.8 for joints 3-6) / 1.25
WeightedUpdate(gradient, step, j) ==
  DivS(MulS(MulS(gradient, step), IF j <= 3 THEN S ELSE 800000), 1250000)

WeightedPass(angles, next, currentPos, error, step) ==
  \A j \in Joints :
     next[j] = clampJoint(angles[j] + WeightedUpdate(Dot(Column(angles, currentPos, j), error),
                                                     step, j), j)

StepAndWeights(angles, next, currentPos, error, errorMag, errorAfter) ==
  /\ StepRule(errorMag)
  /\ StepDecreases(errorMag, errorAfter)
  /\ WeightedPass(angles, next, currentPos, error, AdaptiveStep(errorMag))

StepAndWeightsAt(target, angles, next, currentPos, error) ==
  StepAndWeights(angles, next, currentPos, error, Length(error),
                 Length(ErrorOf(target, next)))

\* C21: in every pass of solveIK the adaptive step is min(0.15, 0.5 * errorMag):
\* it never exceeds 0.15 and below an error of 0.3 it shrinks with the error;
\* joints 0-2 are updated with weight 1.0 and joints 3-6 with weight 0.8, all
\* divided by 1 + 0.5^2 = 1.25, and then clamped.
C21_AdaptiveStepAndWeights ==
  [][ ikPc = "loop" /\ iter' = iter + 1
        => StepAndWeightsAt(targetPos, newAngles, newAngles', forwardKinematics(newAngles),
                            ErrorOf(targetPos, newAngles)) ]_vars

\* a pass from home toward a target 0.146 m away (step below the cap) has
\* moved a base joint and a wrist joint
C21_Witness ==
  /\ ikPc = "loop"
  /\ iter = 1
  /\ targetPos = forwardKinematics(Q2)
  /\ currentAngles = HOME
  /\ Length(ErrorOf(targetPos, currentAngles)) < 300000
  /\ newAngles[1] # HOME[1]
  /\ newAngles[5] # HOME[5]

\* C22: solveIK does not modify the joint-angle array passed in: from entry
\* to return the caller's seed keeps its value, whatever the target, while
\* the passes write to the copy that is returned.
C22_SeedUnchanged ==
  [][ (ikPc = "loop" \/ ikPc = "return") => (currentAngles' = currentAngles) ]_vars

\* twenty passes toward the unreachable target have been made from seed Q2 and
\* the array about to be returned differs from the seed
C22_Witness ==
  /\ ikPc = "return"
  /\ iter = 20
  /\ targetPos = TargetFar
  /\ currentAngles = Q2
  /\ newAngles # currentAngles

----------------------------------------------------------------------------
(* Properties of solveIK on seeds outside the limits, under SpecIKOutside *)

\* C23: for a seed with out-of-limit angles, solveIK returns a configuration
\* entirely within limits if at least one full pass was made (every joint is
\* clamped in every pass, also a joint whose update is 0); if it leaves the
\* loop before the first update (error already below 0.002, or iterations = 0)
\* it returns the seed unchanged, out-of-limit angles included.
C23_ClampedAfterOnePass ==
  ikPc \in {"loop", "return"} =>
    /\ ~WithinLimits(currentAngles)
    /\ iter >= 1 => WithinLimits(newAngles)
    /\ iter = 0 => newAngles = currentAngles

\* a call with joint 0 seeded above its limit and a target straight above the
\* seed's position, for which joint 0 has gradient 0, returns within limits
C23_Witness ==
  /\ ikPc = "return"
  /\ currentAngles = QOver
  /\ targetPos = Up(forwardKinematics(QOver))
  /\ iter >= 1
  /\ ~WithinLimits(currentAngles)
  /\ WithinLimits(newAngles)

----------------------------------------------------------------------------
(* Determinism of solveIK, under SpecIK *)

\* C10: a call of solveIK returns what the first call with the same
\* (target, seed, iterations) returned, whatever calls were made in between.
C10_Deterministic ==
  ikPc = "return" /\ <<targetPos, currentAngles, iterations>> \in Probes
    /\ firstResult[<<targetPos, currentAngles, iterations>>] # <<>>
  => newAngles = firstResult[<<targetPos, currentAngles, iterations>>]

\* a probed input is returning again after both probes, and so other calls,
\* have completed
C10_Witness ==
  /\ ikPc = "return"
  /\ <<targetPos, currentAngles, iterations>> = <<TargetInside, HOME, 20>>
  /\ \A in \in Probes : firstResult[in] # <<>>
  /\ newAngles # HOME

====
